---- MODULE Spec2Model ----
(***************************************************************************)
(* Incremental synchronisation of a channel's chat log into the database:  *)
(* src/download_xqc_logs.py (start-up, month windows, fetch workers) and   *)
(* src/models.py (insert_messages_batch, update_cursor,                    *)
(* get_sync_start_date).                                                   *)
(*                                                                         *)
(* Time is counted in ticks. One tick is the resolution of a timestamp; a  *)
(* day has DAY ticks and every month has MONTHDAYS days. The database is   *)
(* PostgreSQL at READ COMMITTED: a session sees committed rows and the     *)
(* rows it has flushed itself, and an UPDATE of a row waits for the        *)
(* transaction that holds that row.                                        *)
(*                                                                         *)
(* Spec is the script run again and again against one remote log.          *)
(* SpecCalls is update_cursor called directly, one call after another.     *)
(***************************************************************************)
EXTENDS Integers, Sequences, FiniteSets, TLC

\* ---------------------------------------------------------------- bounds
DAY == 2            \* ticks per day
MONTHDAYS == 2      \* days per month
MaxMonth == 2       \* months are 0..MaxMonth
MaxTs == 2          \* largest timestamp of a direct update_cursor call
MaxAdded == 1       \* largest messages_added of a direct update_cursor call
PoolMonth == 4      \* last month of the run that fills the worker pool
MaxBatch == 3       \* longest batch of a direct insert_messages_batch call
MaxLines == 3       \* most lines of a response body read line by line
MaxChars == 4       \* most characters of a response body read in chunks

\* ------------------------------------------------------ program constants
SECOND == 1         \* timedelta(seconds=1)
HOUR == 1           \* timedelta(hours=1), the safety overlap
max_workers == 4    \* ThreadPoolExecutor(max_workers=4)
batch_size == 2     \* insert_messages_batch(batch_size=1000), scaled down
None == -1          \* Python None where a timestamp is expected
TypeError == -2     \* an uncaught TypeError where a timestamp is expected
force_full_sync == FALSE
EARLIEST_DATE == 0

MONTH == DAY * MONTHDAYS
Months == 0..MaxMonth

\* ------------------------------------------------------------ calendar
MonthOf(t) == t \div MONTH
TimeOfDay(t) == t % DAY
DayStart(t) == t - (t % DAY)
\* datetime.replace(day=1): same month, first day, same time of day
ReplaceDay1(t) == MonthOf(t) * MONTH + TimeOfDay(t)
\* t + relativedelta(months=i)
AddMonths(t, i) == t + i * MONTH
At(month, day, tod) == month * MONTH + day * DAY + tod

\* ------------------------------------------------------ the remote log
Rec(id, ts, txt, name) ==
    [message_id |-> id, timestamp |-> ts, text |-> txt, display_name |-> name]

\* What logs.ivr.fi holds for the channel, in timestamp order: one message
\* late in month 0, one in the first tick of month 1, one in month 2.
RemoteLog ==
    << Rec("a", At(0, 1, 0), "hi", "u1"),
       Rec("b", At(1, 0, 0), "yo", "u2"),
       Rec("c", At(2, 0, 1), "gg", "u1") >>
\* datetime.now() of the runs: the second day of month 2
Today == At(2, 1, 0)

Range(s) == { s[i] : i \in 1..Len(s) }
Records == Range(RemoteLog)

InRange(r, from, to) == from <= r.timestamp /\ r.timestamp <= to

\* The body the remote returns for ?from=..&to=..
Body(log, from, to) == SelectSeq(log, LAMBDA r : InRange(r, from, to))

\* ------------------------------------------------------ the line buffer
\* Text is a sequence of characters: a letter, a space, a newline, or a
\* character that UTF-8 encodes in two bytes, a lead byte and a trail
\* byte. A letter, a space and a newline are one byte each.
Chars == { "a", " ", "\n", "e'" }

RECURSIVE Encode(_)
Encode(text) ==
    IF text = <<>> THEN <<>>
    ELSE (IF Head(text) = "e'" THEN << "lead", "trail" >> ELSE << Head(text) >>)
            \o Encode(Tail(text))

\* chunk.decode('utf-8', errors='ignore'), line 126: a lead byte with its
\* trail byte is the character; a lead byte with no trail byte after it
\* and a trail byte with no lead byte before it are dropped.
RECURSIVE Decode(_)
Decode(bytes) ==
    IF bytes = <<>> THEN <<>>
    ELSE IF Head(bytes) = "lead"
    THEN IF Len(bytes) >= 2 /\ bytes[2] = "trail"
         THEN << "e'" >> \o Decode(Tail(Tail(bytes)))
         ELSE Decode(Tail(bytes))
    ELSE IF Head(bytes) = "trail" THEN Decode(Tail(bytes))
    ELSE << Head(bytes) >> \o Decode(Tail(bytes))

\* text.split('\n'): the pieces between the newlines, one more than there
\* are newlines
RECURSIVE Split(_)
Split(text) ==
    IF \A i \in 1..Len(text) : text[i] # "\n" THEN << text >>
    ELSE LET i == CHOOSE k \in 1..Len(text) :
                     text[k] = "\n" /\ \A j \in 1..(k - 1) : text[j] # "\n"
         IN << SubSeq(text, 1, i - 1) >> \o Split(SubSeq(text, i + 1, Len(text)))

\* line.strip() is not empty
NonBlank(line) == \E i \in 1..Len(line) : line[i] # " "

\* ------------------------------------------------------ the line parser
\* A line of the response as json.loads sees it: not JSON at all, JSON that
\* is no object, or an object. Of an object the model keeps the id, the
\* timestamp field (absent, a string in the source's Z-suffixed format, a
\* string that is no ISO date, or a value that is no string) and whether
\* tags is absent, an object or a list.
Line(json, id, shape, at, tags) ==
    [ json |-> json, id |-> id, timestamp |-> [ shape |-> shape, at |-> at ],
      tags |-> tags ]

\* what from_json_line hands back: an exception it lets through, or at most
\* one message (none: it returned None)
Returns(messages) == [ raised |-> "", messages |-> messages ]
Raises(exception) == [ raised |-> exception, messages |-> <<>> ]

\* ChatMessage.from_json_line, models.py lines 97-128. It catches
\* JSONDecodeError, ValueError and KeyError; data.get on a value that is no
\* object, .replace on a timestamp that is no string and tags.get on a list
\* raise AttributeError, which it lets through.
from_json_line(line) ==
    IF line.json = "invalid" THEN Returns(<<>>)
    ELSE IF line.json # "object" THEN Raises("AttributeError")
    ELSE IF line.timestamp.shape = "other" THEN Raises("AttributeError")
    ELSE IF line.timestamp.shape = "malformed" THEN Returns(<<>>)
    ELSE IF line.tags = "list" THEN Raises("AttributeError")
    ELSE Returns(<< Rec(line.id,
                        IF line.timestamp.shape = "iso"
                        THEN line.timestamp.at ELSE None,
                        "hi", "u1") >>)

\* ------------------------------------------------------------ planner
\* get_sync_start_date, given the timestamp of the cursor row it read and
\* whether the database returned it with a time zone. The floor is parsed
\* with "+00:00" and is aware; max() of a naive and an aware datetime raises
\* TypeError. The columns are declared DateTime, without a time zone.
get_sync_start_date(cursor_ts, aware) ==
    IF cursor_ts # None
    THEN LET start_from == cursor_ts - HOUR
         IN IF ~aware THEN TypeError
            ELSE IF start_from > EARLIEST_DATE THEN start_from ELSE EARLIEST_DATE
    ELSE EARLIEST_DATE

start_month(start) == ReplaceDay1(start)
end_month(until) == ReplaceDay1(until)
\* a plausible slip: the range leaves out the end date's month
total_months_short(start, until) ==
    LET n == MonthOf(ReplaceDay1(until)) - MonthOf(ReplaceDay1(start))
    IN IF n > 0 THEN n ELSE 0

\* len(months): range((end.year-start.year)*12 + end.month - start.month + 1)
total_months_of(start, until) ==
    LET n == MonthOf(end_month(until)) - MonthOf(start_month(start)) + 1
    IN IF n > 0 THEN n ELSE 0
\* months[i], i from 0
months_at(start, i) == AddMonths(start_month(start), i)
\* the windows (month numbers) of the list months
Planned(start, until) ==
    { MonthOf(months_at(start, i)) : i \in 0..(total_months_of(start, until) - 1) }
\* the element of months that is in month w
current_datetime(start, w) == w * MONTH + TimeOfDay(start)

\* from_date = current_datetime.strftime("%Y-%m-%dT00:00:00Z")
from_date(cur) == DayStart(cur)
\* to_date = (next_month - timedelta(seconds=1)).strftime("%Y-%m-%dT23:59:59Z")
to_date(cur) == DayStart(AddMonths(cur, 1) - SECOND) + DAY - 1

\* ------------------------------------------------------------ batches
\* messages.sort(key=lambda x: x.timestamp if x.timestamp else datetime.min)
SortKey(m) == IF m.timestamp # None THEN m.timestamp ELSE None

RECURSIVE InsertSorted(_, _)
InsertSorted(s, m) ==
    IF s = <<>> THEN << m >>
    ELSE IF SortKey(s[Len(s)]) <= SortKey(m) THEN Append(s, m)
    ELSE Append(InsertSorted(SubSeq(s, 1, Len(s) - 1), m), s[Len(s)])

RECURSIVE SortMessages(_)
SortMessages(s) ==
    IF s = <<>> THEN <<>>
    ELSE InsertSorted(SortMessages(SubSeq(s, 1, Len(s) - 1)), s[Len(s)])

\* The key of a message without timestamp is datetime.min, which is naive;
\* the timestamps parsed from "...Z" are aware, and comparing the two raises
\* TypeError. A sort of a list that holds both kinds compares one of each.
Sortable(s) ==
    ~ /\ \E i \in 1..Len(s) : s[i].timestamp = None
      /\ \E i \in 1..Len(s) : s[i].timestamp # None

\* a plausible slip: the existence query filters on a value no row has
ExistingNever(m, rows) == FALSE

\* the existence query of insert_messages_batch over the rows a session sees
Existing(m, rows) ==
    IF m.message_id # ""
    THEN \E r \in rows : r.message_id = m.message_id /\ r.timestamp = m.timestamp
    ELSE \E r \in rows : /\ r.timestamp = m.timestamp
                         /\ r.text = m.text
                         /\ r.display_name = m.display_name

\* latest_timestamp = max(latest_timestamp or message.timestamp, message.timestamp)
NextLatest(latest, m) ==
    IF m.timestamp # None
    THEN LET a == IF latest # None THEN latest ELSE m.timestamp
         IN IF a >= m.timestamp THEN a ELSE m.timestamp
    ELSE latest

\* ------------------------------------------------------------- state
VARIABLES
    run_status,      \* "idle", "running", "interrupted", "finished", "crashed"
    remote_log,      \* the remote source's log of the channel
    end_datetime,    \* the end date of the runs
    start_datetime,  \* start of the current run
    completed_count, \* progress counter of the current run
    win,             \* per window (month): the state of its fetch_logs call
    chat_messages,   \* committed rows of chat_messages: record -> number of rows
    sync_cursor,     \* committed rows of sync_cursor, in insertion order
    channel,         \* the row of channels for the channel (rows = 0: absent)
    clock,           \* datetime.utcnow()
    before           \* how the previous run went, noted at start-up

vars == << run_status, remote_log, end_datetime, start_datetime,
           completed_count, win, chat_messages, sync_cursor, channel, clock,
           before >>

\* the months a fetch_logs call exists for
Windows == DOMAIN win

InitWin ==
    [ pc |-> "none",
      unread |-> <<>>,           \* bytes of the response not yet received
      buffer |-> <<>>,           \* the incomplete line kept between chunks
      lines |-> <<>>,            \* lines handed to the parser, not yet parsed
      messages_batch |-> <<>>,   \* parsed, sorted messages of the window
      pos |-> 0,                 \* next message of the batch to look at
      pending |-> {},            \* rows added in the open transaction
      inserted_count |-> 0,
      latest_timestamp |-> None,
      last_timestamp |-> None,   \* update_cursor argument
      messages_added |-> 0,      \* update_cursor argument
      cur_k |-> 0,               \* cursor row read by get_cursor (0: None)
      cur_ts |-> None,
      cur_total |-> 0,
      now |-> 0,                 \* utcnow() read by update_cursor
      chan_total |-> 0 ]         \* channel.total_messages as read

\* A call whose locals are dead: where it stands, and the arguments of its
\* update_cursor call if that call returned (else None, 0).
Ended(outcome, passed, added) ==
    [ InitWin EXCEPT !.pc = outcome, !.last_timestamp = passed,
                     !.messages_added = added ]

Failures == { "failed", "timeout", "error" }
Terminal == { "completed", "killed" } \cup Failures
InUpdate(w) == win[w].pc \in { "uc_cursor", "uc_compare", "uc_commit" }
InFlight(w) == win[w].pc \notin (Terminal \cup { "none", "queued" })

Init ==
    /\ run_status = "idle"
    /\ remote_log = RemoteLog
    /\ end_datetime = DayStart(Today)
    /\ start_datetime = EARLIEST_DATE
    /\ completed_count = 0
    /\ win = [ w \in Months |-> InitWin ]
    /\ chat_messages = [ r \in Records |-> 0 ]
    /\ sync_cursor = <<>>
    /\ channel = [ rows |-> 0, total_messages |-> 0, last_activity |-> None ]
    /\ clock = 0
    /\ before = "other"

\* ------------------------------------------------------- orchestrator
\* the worker threads of the run are alive
Alive == run_status \in { "running", "interrupted" }
AllCompleted == \A w \in Windows : win[w].pc \in { "none", "completed" }
\* windows of a killed run whose records were committed and whose
\* update_cursor had not committed
CutShort == { w \in Windows : win[w].pc = "killed" /\ win[w].last_timestamp # None }

\* a plausible slip: the lookup filters on a column that never matches
get_or_create_channel_always(ch) ==
    [ rows |-> ch.rows + 1, total_messages |-> 0, last_activity |-> None ]

\* get_or_create_channel, models.py lines 134-149, on the rows of channels
\* with the name: the row found, or a new row (total_messages defaults
\* to 0, last_activity to NULL)
get_or_create_channel(ch) ==
    IF ch.rows = 0
    THEN [ rows |-> 1, total_messages |-> 0, last_activity |-> None ]
    ELSE ch

\* Script start-up, lines 27-86: channel, cursor, start_datetime, months.
\* get_cursor is .first() of an unordered query. Whether the stored
\* timestamp comes back aware or naive depends on the column as deployed;
\* an exception at start-up ends the process before any window is planned.
StartRunWith(force) ==
    /\ run_status \in { "idle", "finished", "crashed" }
    /\ \E k \in 0..Len(sync_cursor), aware \in BOOLEAN :
          /\ (k = 0) <=> (sync_cursor = <<>>)
          /\ (k = 0 \/ force) => aware
          /\ LET start == IF k # 0 /\ ~force
                          THEN get_sync_start_date(
                                   sync_cursor[k].last_indexed_timestamp, aware)
                          ELSE EARLIEST_DATE
                 raised == start = TypeError
             IN /\ start_datetime' = IF raised THEN start_datetime ELSE start
                /\ run_status' = IF raised THEN "crashed" ELSE "running"
                /\ win' = [ w \in Windows |->
                              IF ~raised /\ w \in Planned(start, end_datetime)
                              THEN [ InitWin EXCEPT !.pc = "queued" ]
                              ELSE InitWin ]
                /\ before' = IF raised THEN "other"
                             ELSE IF run_status = "finished"
                                     /\ start_datetime = EARLIEST_DATE
                             THEN IF AllCompleted THEN "full_ok" ELSE "full"
                             ELSE IF run_status = "crashed" /\ CutShort # {}
                             THEN "cut"
                             ELSE "other"
    /\ channel' = get_or_create_channel(channel)
    /\ completed_count' = 0
    /\ UNCHANGED << remote_log, end_datetime, chat_messages, sync_cursor, clock >>

\* the script as it is, force_full_sync = False (line 25)
StartRun == StartRunWith(force_full_sync)

\* a plausible slip: one thread per month
StartFetchUnbounded(w) ==
    /\ Alive
    /\ win[w].pc = "queued"
    /\ win' = [ win EXCEPT ![w].pc = "fetching" ]
    /\ UNCHANGED << run_status, remote_log, end_datetime, start_datetime,
                    completed_count, chat_messages, sync_cursor, channel,
                    clock, before >>

\* The executor hands months to its workers in order, at most max_workers
\* at a time (lines 89, 217).
StartFetch(w) ==
    /\ Alive
    /\ win[w].pc = "queued"
    /\ \A v \in Windows : v < w => win[v].pc # "queued"
    /\ Cardinality({ v \in Windows : InFlight(v) }) < max_workers
    /\ win' = [ win EXCEPT ![w].pc = "fetching" ]
    /\ UNCHANGED << run_status, remote_log, end_datetime, start_datetime,
                    completed_count, chat_messages, sync_cursor, channel,
                    clock, before >>

\* Status 200 (lines 117-143): the lines of the body arrive and are parsed
\* into messages_batch; the stream has not ended yet.
ResponseOk(w) ==
    /\ Alive
    /\ win[w].pc = "fetching"
    /\ LET cur == current_datetime(start_datetime, w)
       IN win' = [ win EXCEPT
                     ![w].messages_batch = Body(remote_log, from_date(cur), to_date(cur)),
                     ![w].pc = "streaming" ]
    /\ UNCHANGED << run_status, remote_log, end_datetime, start_datetime,
                    completed_count, chat_messages, sync_cursor, channel,
                    clock, before >>

\* One pass of the loop over response.iter_content, lines 124-139: the
\* next n bytes arrive as a chunk, are decoded and added to the buffer; the
\* complete lines that are not blank go to the parser and the last piece
\* stays in the buffer.
ReadChunk(w, n) ==
    /\ Alive
    /\ win[w].pc = "streaming"
    /\ n \in 1..Len(win[w].unread)
    /\ LET chunk == SubSeq(win[w].unread, 1, n)
           chunk_str == Decode(chunk)
           pieces == Split(win[w].buffer \o chunk_str)
       IN win' = [ win EXCEPT
                     ![w].unread = SubSeq(@, n + 1, Len(@)),
                     ![w].buffer = pieces[Len(pieces)],
                     ![w].lines = @ \o SelectSeq(SubSeq(pieces, 1, Len(pieces) - 1),
                                                 NonBlank) ]
    /\ UNCHANGED << run_status, remote_log, end_datetime, start_datetime,
                    completed_count, chat_messages, sync_cursor, channel,
                    clock, before >>

\* The loop has ended, lines 144-149: what is left in the buffer goes to
\* the parser if it is not blank.
EndOfStream(w) ==
    /\ Alive
    /\ win[w].pc = "streaming"
    /\ win[w].unread = <<>>
    /\ win' = [ win EXCEPT
                  ![w].buffer = <<>>,
                  ![w].lines = @ \o (IF NonBlank(win[w].buffer)
                                     THEN << win[w].buffer >> ELSE <<>>),
                  ![w].pc = "stream_ended" ]
    /\ UNCHANGED << run_status, remote_log, end_datetime, start_datetime,
                    completed_count, chat_messages, sync_cursor, channel,
                    clock, before >>

\* A terminal outcome of fetch_logs other than success: the session, if
\* any, is rolled back and the progress counter is incremented. A call
\* abandoned while streaming leaves behind the list it had parsed.
Abandon(w, outcome) ==
    /\ win' = [ win EXCEPT ![w] =
                  [ Ended(outcome, None, 0) EXCEPT
                      !.messages_batch = IF win[w].pc = "streaming"
                                         THEN win[w].messages_batch ELSE <<>> ] ]
    /\ completed_count' = completed_count + 1
    /\ UNCHANGED << run_status, remote_log, end_datetime, start_datetime,
                    chat_messages, sync_cursor, channel, clock, before >>

\* a plausible slip: the database is called whatever the batch holds
StreamEndAlwaysUpdates(w) ==
    /\ Alive
    /\ win[w].pc = "streaming"
    /\ win[w].lines = <<>>
    /\ LET batch == SortMessages(win[w].messages_batch)
       IN win' = [ win EXCEPT
                     ![w].messages_batch = batch,
                     ![w].pos = IF batch = <<>> THEN 0 ELSE 1,
                     ![w].pc = IF batch = <<>> THEN "uc_cursor" ELSE "insert" ]
    /\ UNCHANGED << run_status, remote_log, end_datetime, start_datetime,
                    completed_count, chat_messages, sync_cursor, channel,
                    clock, before >>

\* The stream ends (lines 144-158): an empty batch skips the database;
\* any other is handed to insert_messages_batch, which sorts it (line 290).
\* An exception of the sort ends the window in the generic handler.
StreamEnd(w) ==
    /\ Alive
    /\ win[w].pc = "streaming"
    /\ win[w].lines = <<>>
    /\ IF Sortable(win[w].messages_batch)
       THEN /\ LET batch == SortMessages(win[w].messages_batch)
               IN win' = [ win EXCEPT
                             ![w].messages_batch = batch,
                             ![w].pos = IF batch = <<>> THEN 0 ELSE 1,
                             ![w].pc = IF batch = <<>> THEN "db_done" ELSE "insert" ]
            /\ UNCHANGED << run_status, remote_log, end_datetime, start_datetime,
                            completed_count, chat_messages, sync_cursor, channel,
                            clock, before >>
       ELSE Abandon(w, "error")

\* One line of the body (lines 134-139, 145-149): from_json_line, and the
\* message, if there is one, is appended. An exception that from_json_line
\* lets through ends the window in the generic handler (lines 207-214).
ParseLine(w) ==
    /\ Alive
    /\ win[w].pc = "streaming"
    /\ win[w].lines # <<>>
    /\ LET parsed == from_json_line(Head(win[w].lines))
       IN IF parsed.raised = ""
          THEN /\ win' = [ win EXCEPT
                            ![w].lines = Tail(@),
                            ![w].messages_batch = @ \o parsed.messages ]
               /\ UNCHANGED << run_status, remote_log, end_datetime,
                               start_datetime, completed_count, chat_messages,
                               sync_cursor, channel, clock, before >>
          ELSE Abandon(w, "error")

\* Status other than 200 (lines 185-196): the window is counted, then
\* reported with response.text, which reads the body of the streamed
\* response. When that read raises, the generic handler (lines 207-214)
\* counts the window again and reports it as an error.
ResponseStatus(w) ==
    /\ Alive
    /\ win[w].pc = "fetching"
    /\ \/ Abandon(w, "failed")
       \/ /\ win' = [ win EXCEPT ![w] = Ended("error", None, 0) ]
          /\ completed_count' = completed_count + 2
          /\ UNCHANGED << run_status, remote_log, end_datetime, start_datetime,
                          chat_messages, sync_cursor, channel, clock, before >>

\* a plausible slip: the handler stores what had been parsed
FetchTimeoutSaving(w) ==
    /\ Alive
    /\ win[w].pc \in { "fetching", "streaming" }
    /\ win' = [ win EXCEPT ![w] = Ended("timeout", None, 0) ]
    /\ chat_messages' = [ r \in DOMAIN chat_messages |->
          IF r \in Range(win[w].messages_batch) /\ chat_messages[r] = 0
          THEN 1 ELSE chat_messages[r] ]
    /\ completed_count' = completed_count + 1
    /\ UNCHANGED << run_status, remote_log, end_datetime, start_datetime,
                    sync_cursor, channel, clock, before >>

\* requests.exceptions.Timeout (lines 198-205), raised by the request or
\* while the body is read.
FetchTimeout(w) ==
    /\ Alive
    /\ win[w].pc \in { "fetching", "streaming" }
    /\ Abandon(w, "timeout")

\* Any other exception of the request or of reading the body (lines
\* 207-214).
FetchError(w) ==
    /\ Alive
    /\ win[w].pc \in { "fetching", "streaming" }
    /\ Abandon(w, "error")

\* ------------------------------------------------ insert_messages_batch
\* a plausible slip: the session does not flush before a query
VisibleCommitted(w) == { r \in DOMAIN chat_messages : chat_messages[r] > 0 }

\* rows the session of w sees: committed ones and, through autoflush, the
\* ones it has added itself
Visible(w) == { r \in DOMAIN chat_messages : chat_messages[r] > 0 } \cup win[w].pending

\* The session can flush what it has added: chat_messages.timestamp is
\* nullable=False (line 66), and the INSERT of a row without timestamp
\* raises IntegrityError.
Flushable(w) == \A r \in win[w].pending : r.timestamp # None

\* One iteration of the inner loop, lines 299-322. The existence query
\* flushes the session first; an exception of the flush ends the window in
\* the generic handler, its transaction rolled back.
InsertCheck(w) ==
    /\ win[w].pc = "insert"
    /\ IF Flushable(w)
       THEN /\ LET message == win[w].messages_batch[win[w].pos]
                   existing == Existing(message, Visible(w))
                   chunk_end == \/ win[w].pos % batch_size = 0
                                \/ win[w].pos = Len(win[w].messages_batch)
               IN win' = [ win EXCEPT
                        ![w].pending = IF existing THEN @ ELSE @ \cup { message },
                        ![w].inserted_count = IF existing THEN @ ELSE @ + 1,
                        ![w].latest_timestamp =
                            IF existing THEN @ ELSE NextLatest(@, message),
                        ![w].pos = @ + 1,
                        ![w].pc = IF chunk_end THEN "commit" ELSE "insert" ]
            /\ UNCHANGED << run_status, remote_log, end_datetime, start_datetime,
                            completed_count, chat_messages, sync_cursor, channel,
                            clock, before >>
       ELSE Abandon(w, "error")

\* the last chunk of the batch of w is the one open
LastChunk(w) == win[w].pos > Len(win[w].messages_batch)

\* Control after a chunk (lines 295, 327, 158-162): the next chunk, or the
\* return to fetch_logs, which calls update_cursor if latest_timestamp is set.
AfterChunk(w) ==
    IF ~LastChunk(w)
    THEN [ win[w] EXCEPT !.pending = {}, !.pc = "insert" ]
    ELSE IF win[w].latest_timestamp # None
    THEN [ win[w] EXCEPT !.pending = {}, !.pc = "uc_cursor",
                         !.last_timestamp = win[w].latest_timestamp,
                         !.messages_added = win[w].inserted_count ]
    ELSE Ended("db_done", None, 0)

\* session.commit() of a chunk, line 325: flush, then commit.
CommitChunk(w) ==
    /\ win[w].pc = "commit"
    /\ IF Flushable(w)
       THEN /\ chat_messages' = [ r \in DOMAIN chat_messages |->
                  IF r \in win[w].pending THEN chat_messages[r] + 1
                  ELSE chat_messages[r] ]
            /\ win' = [ win EXCEPT ![w] = AfterChunk(w) ]
            /\ UNCHANGED << run_status, remote_log, end_datetime, start_datetime,
                            completed_count, sync_cursor, channel, clock, before >>
       ELSE Abandon(w, "error")

\* a plausible slip: the failed commit is rolled back inside
\* insert_messages_batch, which returns what it has counted so far
CommitChunkFailReturns(w) ==
    /\ win[w].pc = "commit"
    /\ win' = [ win EXCEPT ![w] =
                  IF win[w].latest_timestamp # None
                  THEN [ win[w] EXCEPT !.pending = {}, !.pc = "uc_cursor",
                                       !.last_timestamp = win[w].latest_timestamp,
                                       !.messages_added = win[w].inserted_count ]
                  ELSE Ended("db_done", None, 0) ]
    /\ UNCHANGED << run_status, remote_log, end_datetime, start_datetime,
                    completed_count, chat_messages, sync_cursor, channel,
                    clock, before >>

\* a plausible slip: the failed commit is rolled back and logged, and the
\* function carries on
CommitChunkFailSwallowed(w) ==
    /\ win[w].pc = "commit"
    /\ win' = [ win EXCEPT ![w] = AfterChunk(w) ]
    /\ UNCHANGED << run_status, remote_log, end_datetime, start_datetime,
                    completed_count, chat_messages, sync_cursor, channel,
                    clock, before >>

\* The commit of a chunk raises: the open transaction is rolled back and
\* the window ends in the generic exception handler (lines 165-168, 207).
CommitChunkFail(w) ==
    /\ win[w].pc = "commit"
    /\ Abandon(w, "error")

\* ---------------------------------------------------------- update_cursor
\* cursor = get_cursor(session, channel_id), line 158: .first() of an
\* unordered query
UcReadCursor(w) ==
    /\ win[w].pc = "uc_cursor"
    /\ \E k \in 0..Len(sync_cursor) :
          /\ (k = 0) <=> (sync_cursor = <<>>)
          /\ win' = [ win EXCEPT
               ![w].cur_k = k,
               ![w].cur_ts = IF k = 0 THEN None
                             ELSE sync_cursor[k].last_indexed_timestamp,
               ![w].cur_total = IF k = 0 THEN 0
                                ELSE sync_cursor[k].total_messages_indexed,
               ![w].pc = "uc_compare" ]
    /\ UNCHANGED << run_status, remote_log, end_datetime, start_datetime,
                    completed_count, chat_messages, sync_cursor, channel,
                    clock, before >>

\* a plausible slip: the comparison is left out
NewerAlways(last_timestamp, cur_ts) == TRUE

\* if last_timestamp > cursor.last_indexed_timestamp, line 162
Newer(last_timestamp, cur_ts) == last_timestamp > cur_ts

\* update_cursor of w changes the cursor row it read
Updates(w) == win[w].cur_k # 0 /\ Newer(win[w].last_timestamp, win[w].cur_ts)
\* the transaction of v has flushed an UPDATE of cursor row k
HoldsRow(v, k) == win[v].pc = "uc_commit" /\ Updates(v) /\ win[v].cur_k = k

\* Lines 160-176: the comparison, the changes to the cursor object, and the
\* channel query, which first flushes the cursor's UPDATE or INSERT.
UcCompare(w) ==
    /\ win[w].pc = "uc_compare"
    /\ Updates(w) => \A v \in Windows \ { w } : ~HoldsRow(v, win[w].cur_k)
    /\ win' = [ win EXCEPT ![w].now = clock,
                           ![w].chan_total = channel.total_messages,
                           ![w].pc = "uc_commit" ]
    /\ UNCHANGED << run_status, remote_log, end_datetime, start_datetime,
                    completed_count, chat_messages, sync_cursor, channel,
                    clock, before >>

\* the cursor table after update_cursor's commit, lines 160-173
CursorAfter(rows, k, cur_ts, cur_total, last_timestamp, messages_added, now) ==
    IF k # 0
    THEN IF Newer(last_timestamp, cur_ts)
         THEN [ rows EXCEPT ![k] =
                  [ last_indexed_timestamp |-> last_timestamp,
                    last_sync |-> now,
                    total_messages_indexed |-> cur_total + messages_added ] ]
         ELSE rows
    ELSE Append(rows, [ last_indexed_timestamp |-> last_timestamp,
                        last_sync |-> now,
                        total_messages_indexed |-> messages_added ])

\* Lines 177-182: the channel's activity and session.commit().
UcCommit(w) ==
    /\ win[w].pc = "uc_commit"
    /\ sync_cursor' = CursorAfter(sync_cursor, win[w].cur_k, win[w].cur_ts,
                                  win[w].cur_total, win[w].last_timestamp,
                                  win[w].messages_added, win[w].now)
    /\ channel' = IF channel.rows # 0
                  THEN [ channel EXCEPT
                           !.last_activity = win[w].now,
                           !.total_messages = win[w].chan_total + win[w].messages_added ]
                  ELSE channel
    /\ win' = [ win EXCEPT ![w] =
                  Ended("db_done", win[w].last_timestamp, win[w].messages_added) ]
    /\ UNCHANGED << run_status, remote_log, end_datetime, start_datetime,
                    completed_count, chat_messages, clock, before >>

\* update_cursor's commit raises: rollback, generic handler (lines 165-168).
UcFail(w) ==
    /\ Alive
    /\ win[w].pc = "uc_commit"
    /\ Abandon(w, "error")

\* Lines 164-183: the session is closed and the window is reported.
Complete(w) ==
    /\ Alive
    /\ win[w].pc = "db_done"
    /\ win' = [ win EXCEPT ![w].pc = "completed" ]
    /\ completed_count' = completed_count + 1
    /\ UNCHANGED << run_status, remote_log, end_datetime, start_datetime,
                    chat_messages, sync_cursor, channel, clock, before >>

\* Leaving the with-block of the executor waits for every submitted window
\* (lines 89, 217-222).
EndRun ==
    /\ run_status = "running"
    /\ \A w \in Windows : win[w].pc \in Terminal \cup { "none" }
    /\ run_status' = "finished"
    /\ UNCHANGED << remote_log, end_datetime, start_datetime, completed_count,
                    win, chat_messages, sync_cursor, channel, clock, before >>

\* The process is killed: open transactions are never committed and the
\* memory of the process is lost.
Kill ==
    /\ Alive
    /\ \E w \in Windows : win[w].pc \notin Terminal \cup { "none" }
    /\ run_status' = "crashed"
    /\ win' = [ w \in Windows |->
                  IF win[w].pc = "none" THEN win[w]
                  ELSE IF InUpdate(w) THEN Ended("killed", win[w].last_timestamp, 0)
                  ELSE Ended("killed", None, 0) ]
    /\ UNCHANGED << remote_log, end_datetime, start_datetime, completed_count,
                    chat_messages, sync_cursor, channel, clock, before >>

\* KeyboardInterrupt in the main thread, which waits in the executor's
\* shutdown (lines 217-220): the exception leaves the with-block, and the
\* interpreter, before it exits, joins the worker threads, which take
\* months from the queue until it is empty.
Interrupt ==
    /\ run_status = "running"
    /\ run_status' = "interrupted"
    /\ UNCHANGED << remote_log, end_datetime, start_datetime, completed_count,
                    win, chat_messages, sync_cursor, channel, clock, before >>

\* The interrupted process exits when its workers have returned.
Exit ==
    /\ run_status = "interrupted"
    /\ \A w \in Windows : win[w].pc \in Terminal \cup { "none" }
    /\ run_status' = "crashed"
    /\ UNCHANGED << remote_log, end_datetime, start_datetime, completed_count,
                    win, chat_messages, sync_cursor, channel, clock, before >>

Next ==
    \/ StartRun
    \/ EndRun
    \/ Kill
    \/ \E w \in Windows :
          \/ StartFetch(w)
          \/ ResponseOk(w)
          \/ StreamEnd(w)
          \/ ResponseStatus(w)
          \/ FetchTimeout(w)
          \/ FetchError(w)
          \/ InsertCheck(w)
          \/ CommitChunk(w)
          \/ CommitChunkFail(w)
          \/ UcReadCursor(w)
          \/ UcCompare(w)
          \/ UcCommit(w)
          \/ UcFail(w)
          \/ Complete(w)

Spec == Init /\ [][Next]_vars

\* ------------------------------------------- update_cursor called directly
\* A channel that exists and has no cursor; no run is in progress.
InitCalls ==
    /\ run_status = "calls"
    /\ remote_log = <<>>
    /\ end_datetime = DayStart(Today)
    /\ start_datetime = EARLIEST_DATE
    /\ completed_count = 0
    /\ win = [ w \in Months |-> InitWin ]
    /\ chat_messages = [ r \in Records |-> 0 ]
    /\ sync_cursor = <<>>
    /\ channel = [ rows |-> 1, total_messages |-> 0, last_activity |-> None ]
    /\ clock = 0
    /\ before = "other"

\* Caller w calls update_cursor(session, channel_id, ts, added) in a session
\* of its own, once the call before it has returned; time has passed.
Call(w, ts, added) ==
    /\ run_status = "calls"
    /\ win[w].pc = "none"
    /\ \A v \in Windows : /\ ~InUpdate(v)
                          /\ v < w => win[v].pc = "db_done"
    /\ win' = [ win EXCEPT ![w].pc = "uc_cursor",
                           ![w].last_timestamp = ts,
                           ![w].messages_added = added ]
    /\ clock' = clock + 1
    /\ UNCHANGED << run_status, remote_log, end_datetime, start_datetime,
                    completed_count, chat_messages, sync_cursor, channel,
                    before >>

NextCalls ==
    \E w \in Windows :
       \/ \E ts \in 0..MaxTs, added \in 0..MaxAdded : Call(w, ts, added)
       \/ UcReadCursor(w)
       \/ UcCompare(w)
       \/ UcCommit(w)

SpecCalls == InitCalls /\ [][NextCalls]_vars

\* ------------------------------------------------- the planner on its own
LastTick == (MaxMonth + 1) * MONTH - 1
Days == { DayStart(t) : t \in 0..LastTick }

\* Start-up with any checkpoint (none, or one row with any timestamp) and
\* any end date (strptime of "%Y-%m-%d": the start of a day).
InitPlan ==
    /\ run_status = "idle"
    /\ remote_log = <<>>
    /\ end_datetime \in Days
    /\ start_datetime = EARLIEST_DATE
    /\ completed_count = 0
    /\ win = [ w \in Months |-> InitWin ]
    /\ chat_messages = [ r \in Records |-> 0 ]
    /\ \E ts \in 0..LastTick :
          sync_cursor \in { <<>>, << [ last_indexed_timestamp |-> ts,
                                      last_sync |-> 0,
                                      total_messages_indexed |-> 0 ] >> }
    /\ channel = [ rows |-> 1, total_messages |-> 0, last_activity |-> None ]
    /\ clock = 0
    /\ before = "other"

NextPlan == StartRun

SpecPlan == InitPlan /\ [][NextPlan]_vars

\* ------------------------------------------- more windows than workers
\* A first sync whose end date lies in month PoolMonth: more months than
\* the pool has workers. The remote log holds one message, in month 0.
InitPool ==
    /\ run_status = "idle"
    /\ remote_log = SubSeq(RemoteLog, 1, 1)
    /\ end_datetime = At(PoolMonth, 0, 0)
    /\ start_datetime = EARLIEST_DATE
    /\ completed_count = 0
    /\ win = [ w \in 0..PoolMonth |-> InitWin ]
    /\ chat_messages = [ r \in Records |-> 0 ]
    /\ sync_cursor = <<>>
    /\ channel = [ rows |-> 0, total_messages |-> 0, last_activity |-> None ]
    /\ clock = 0
    /\ before = "other"

\* one run of the script
NextPool == run_status \in { "idle", "running" } /\ Next

SpecPool == InitPool /\ [][NextPool]_vars

\* ------------------------------------- one writer, batch after batch
\* Parsed messages a batch may hold: two without an identifier that differ
\* only in text, one with an identifier that equals an anonymous one in
\* timestamp, text and name, and one with the same identifier and
\* timestamp and another text, earlier than the rest.
Pool ==
    { Rec("", At(0, 1, 0), "hi", "u1"),
      Rec("", At(0, 1, 0), "yo", "u1"),
      Rec("x", At(0, 1, 0), "hi", "u1"),
      Rec("x", At(0, 1, 0), "yo", "u1") }

\* every list of at most n messages of the pool
RECURSIVE BatchesUpTo(_)
BatchesUpTo(n) ==
    IF n = 0 THEN { <<>> }
    ELSE LET shorter == BatchesUpTo(n - 1)
         IN shorter \cup { Append(b, m) : b \in shorter, m \in Pool }

Batches == BatchesUpTo(MaxBatch)

\* A channel with no message and no cursor; no run is in progress.
InitBatch ==
    /\ run_status = "batch"
    /\ remote_log = <<>>
    /\ end_datetime = DayStart(Today)
    /\ start_datetime = EARLIEST_DATE
    /\ completed_count = 0
    /\ win = [ w \in Months |-> InitWin ]
    /\ chat_messages = [ r \in Pool |-> 0 ]
    /\ sync_cursor = <<>>
    /\ channel = [ rows |-> 1, total_messages |-> 0, last_activity |-> None ]
    /\ clock = 0
    /\ before = "other"

\* Lines 155-158 of fetch_logs, one window after another: a session is
\* opened and insert_messages_batch(session, messages_batch, channel_id) is
\* called; it returns (0, None) for an empty list and sorts any other.
CallInsert(w, batch) ==
    /\ run_status = "batch"
    /\ win[w].pc = "none"
    /\ \A v \in Windows : /\ ~InFlight(v)
                          /\ v < w => win[v].pc # "none"
    /\ IF Sortable(batch)
       THEN /\ win' = [ win EXCEPT
                          ![w].messages_batch = SortMessages(batch),
                          ![w].pos = IF batch = <<>> THEN 0 ELSE 1,
                          ![w].pc = IF batch = <<>> THEN "db_done" ELSE "insert" ]
            /\ UNCHANGED << run_status, remote_log, end_datetime, start_datetime,
                            completed_count, chat_messages, sync_cursor, channel,
                            clock, before >>
       ELSE Abandon(w, "error")

NextBatch ==
    \E w \in Windows :
       \/ \E batch \in Batches : CallInsert(w, batch)
       \/ InsertCheck(w)
       \/ CommitChunk(w)
       \/ CommitChunkFail(w)
       \/ UcReadCursor(w)
       \/ UcCompare(w)
       \/ UcCommit(w)

SpecBatch == InitBatch /\ [][NextBatch]_vars

\* --------------------------------------------- one window, line by line
\* The lines a response may hold: two messages of month 0, an object
\* without a timestamp field, an object whose timestamp is no ISO date,
\* text that is no JSON, a JSON array, and an object whose tags is a list.
GoodLines ==
    { Line("object", "a", "iso", At(0, 0, 1), "object"),
      Line("object", "b", "iso", At(0, 1, 0), "absent") }
NoTimestamp == Line("object", "n", "absent", None, "object")
BadTimestamp == Line("object", "m", "malformed", None, "object")
InvalidJson == Line("invalid", "", "absent", None, "absent")
NotAnObject == Line("array", "", "absent", None, "absent")
WrongShape == Line("object", "s", "iso", At(0, 0, 1), "list")
Lines ==
    GoodLines \cup { NoTimestamp, BadTimestamp, InvalidJson, NotAnObject, WrongShape }

\* every body of at most n lines
RECURSIVE BodiesUpTo(_)
BodiesUpTo(n) ==
    IF n = 0 THEN { <<>> }
    ELSE LET shorter == BodiesUpTo(n - 1)
         IN shorter \cup { Append(b, l) : b \in shorter, l \in Lines }

\* the messages from_json_line can make of a line
Parseable == UNION { Range(from_json_line(l).messages) : l \in Lines }

\* A first sync of one month whose request has been answered with status
\* 200; the body, any list of lines, is about to be read.
InitParse ==
    /\ run_status = "running"
    /\ remote_log \in BodiesUpTo(MaxLines)
    /\ end_datetime = At(0, 1, 0)
    /\ start_datetime = EARLIEST_DATE
    /\ completed_count = 0
    /\ win = [ w \in { 0 } |->
                [ InitWin EXCEPT !.pc = "streaming", !.lines = remote_log ] ]
    /\ chat_messages = [ r \in Parseable |-> 0 ]
    /\ sync_cursor = <<>>
    /\ channel = [ rows |-> 1, total_messages |-> 0, last_activity |-> None ]
    /\ clock = 0
    /\ before = "other"

\* the window, with no failure of the network or of the database
NextParse ==
    \E w \in Windows :
       \/ ParseLine(w)
       \/ StreamEnd(w)
       \/ InsertCheck(w)
       \/ CommitChunk(w)
       \/ UcReadCursor(w)
       \/ UcCompare(w)
       \/ UcCommit(w)
       \/ Complete(w)

SpecParse == InitParse /\ [][NextParse]_vars

\* ------------------------------------------- one response, chunk by chunk
\* every text of at most n characters
RECURSIVE TextsUpTo(_)
TextsUpTo(n) ==
    IF n = 0 THEN { <<>> }
    ELSE LET shorter == TextsUpTo(n - 1)
         IN shorter \cup { Append(t, c) : t \in shorter, c \in Chars }

\* A window whose request has been answered with status 200; the body is
\* any text, encoded, and none of it has arrived.
InitStream ==
    /\ run_status = "running"
    /\ remote_log \in TextsUpTo(MaxChars)
    /\ end_datetime = At(0, 1, 0)
    /\ start_datetime = EARLIEST_DATE
    /\ completed_count = 0
    /\ win = [ w \in { 0 } |->
                [ InitWin EXCEPT !.pc = "streaming",
                                 !.unread = Encode(remote_log) ] ]
    /\ chat_messages = [ r \in Records |-> 0 ]
    /\ sync_cursor = <<>>
    /\ channel = [ rows |-> 1, total_messages |-> 0, last_activity |-> None ]
    /\ clock = 0
    /\ before = "other"

\* the body arrives in chunks of any size
NextStream ==
    \E w \in Windows :
       \/ \E n \in 1..(2 * MaxChars) : ReadChunk(w, n)
       \/ EndOfStream(w)

SpecStream == InitStream /\ [][NextStream]_vars

\* ------------------------------------------------- a run that is cancelled
\* One run over more months than workers, which a signal may end: SIGINT
\* raises KeyboardInterrupt in the main thread, any other ends the process.
NextCancel ==
    \/ run_status = "idle" /\ StartRun
    \/ EndRun
    \/ Interrupt
    \/ Exit
    \/ Kill
    \/ \E w \in Windows :
          \/ StartFetch(w)
          \/ ResponseOk(w)
          \/ StreamEnd(w)
          \/ ResponseStatus(w)
          \/ FetchTimeout(w)
          \/ FetchError(w)
          \/ InsertCheck(w)
          \/ CommitChunk(w)
          \/ CommitChunkFail(w)
          \/ UcReadCursor(w)
          \/ UcCompare(w)
          \/ UcCommit(w)
          \/ UcFail(w)
          \/ Complete(w)

SpecCancel == InitPool /\ [][NextCancel]_vars

\* ------------------------------------------------- a forced full resync
\* the cursor row update_cursor writes for a timestamp
CursorRow(ts) ==
    [ last_indexed_timestamp |-> ts, last_sync |-> 0, total_messages_indexed |-> 0 ]

\* What earlier runs, with their failed windows and kills, can have left:
\* any part of the remote log stored once, and no cursor or one at the
\* timestamp of a stored record.
InitForce ==
    /\ run_status = "idle"
    /\ remote_log = RemoteLog
    /\ end_datetime = DayStart(Today)
    /\ start_datetime = EARLIEST_DATE
    /\ completed_count = 0
    /\ win = [ w \in Months |-> InitWin ]
    /\ chat_messages \in [ Records -> { 0, 1 } ]
    /\ sync_cursor \in { <<>> } \cup
          { << CursorRow(r.timestamp) >> : r \in { q \in Records : chat_messages[q] = 1 } }
    /\ channel = [ rows |-> 1, total_messages |-> 0, last_activity |-> None ]
    /\ clock = 0
    /\ before = "other"

\* one run of the script with force_full_sync = True
NextForce ==
    \/ run_status = "idle" /\ StartRunWith(TRUE)
    \/ EndRun
    \/ Kill
    \/ \E w \in Windows :
          \/ StartFetch(w)
          \/ ResponseOk(w)
          \/ StreamEnd(w)
          \/ ResponseStatus(w)
          \/ FetchTimeout(w)
          \/ FetchError(w)
          \/ InsertCheck(w)
          \/ CommitChunk(w)
          \/ CommitChunkFail(w)
          \/ UcReadCursor(w)
          \/ UcCompare(w)
          \/ UcCommit(w)
          \/ UcFail(w)
          \/ Complete(w)

SpecForce == InitForce /\ [][NextForce]_vars

\* ------------------------------------------------------------ properties
MaxOf(S) == CHOOSE x \in S : \A y \in S : y <= x
Persisted == { r \in DOMAIN chat_messages : chat_messages[r] > 0 }
CursorRows == 1..Len(sync_cursor)
\* last_indexed_timestamp of every cursor row
CursorTimestamps(rows) == [ k \in 1..Len(rows) |-> rows[k].last_indexed_timestamp ]
\* windows whose update_cursor call has returned
Returned == { w \in Windows : win[w].pc = "db_done" /\ win[w].last_timestamp # None }
\* windows of the run that completed after an update_cursor call
Advanced == { w \in Windows : win[w].pc = "completed" /\ win[w].last_timestamp # None }
PassedBy(S) == { win[w].last_timestamp : w \in S }
Quiet == \A w \in Windows : ~InUpdate(w)
TimestampsOf(batch) ==
    { batch[i].timestamp : i \in 1..Len(batch) } \ { None }

RECURSIVE SumAdded(_)
SumAdded(S) ==
    IF S = {} THEN 0
    ELSE LET w == CHOOSE x \in S : TRUE
         IN win[w].messages_added + SumAdded(S \ { w })

\* C1: a record with a non-empty source identifier that two workers commit
\* concurrently for the channel is persisted exactly once: no such record
\* ever has more than one row.
C1_OneCopy ==
    \A r \in Records : r.message_id # "" => chat_messages[r] <= 1

C3_Monotonic ==
    [][ /\ \A k \in CursorRows :
             sync_cursor'[k].last_indexed_timestamp
                 >= sync_cursor[k].last_indexed_timestamp
        /\ (run_status = "running" /\ run_status' = "finished" /\ Advanced # {})
             => \A k \in CursorRows :
                   sync_cursor[k].last_indexed_timestamp
                       >= MaxOf(PassedBy(Advanced)) ]_vars

\* C4: when a run ends with one window failed and every other window
\* completed, a later window having advanced the checkpoint, the next run
\* plans the failed window's month again.
C4_Replanned ==
    [][ (run_status = "finished" /\ run_status' = "running")
          => \A w \in Windows :
                ( /\ win[w].pc \in Failures
                  /\ \A v \in Windows \ { w } : win[v].pc \in { "none", "completed" }
                  /\ \E v \in Advanced : v > w )
                => w \in Planned(start_datetime', end_datetime) ]_vars

\* C5: after a run in which one window's fetch timed out or raised and every
\* other window completed, the checkpoint is the largest timestamp passed by
\* the windows that succeeded.
C5_Isolation ==
    ( /\ run_status = "finished"
      /\ Cardinality({ w \in Windows : win[w].pc \in { "timeout", "error" } }) = 1
      /\ \A w \in Windows : win[w].pc \in { "none", "completed", "timeout", "error" }
      /\ Advanced # {} )
        => \A k \in CursorRows :
              sync_cursor[k].last_indexed_timestamp = MaxOf(PassedBy(Advanced))

\* C6 as stated: a run that follows a finished full sync changes neither the
\* persisted records nor the checkpoint timestamp.
C6_Idempotent ==
    [][ (before \in { "full", "full_ok" } /\ run_status = "running")
          => /\ chat_messages' = chat_messages
             /\ CursorTimestamps(sync_cursor') = CursorTimestamps(sync_cursor) ]_vars

\* C6 as amended: a run that follows a finished full sync all of whose
\* windows completed changes neither the persisted records nor the
\* checkpoint timestamp.
C6_IdempotentAfterCompleteRun ==
    [][ (before = "full_ok" /\ run_status = "running")
          => /\ chat_messages' = chat_messages
             /\ CursorTimestamps(sync_cursor') = CursorTimestamps(sync_cursor) ]_vars

\* C6 witness: the run after a complete full sync has finished, having
\* fetched and completed a window, with records persisted.
C6_Witness ==
    /\ before = "full_ok"
    /\ run_status = "finished"
    /\ \E w \in Windows : win[w].pc = "completed"
    /\ Persisted = Records

\* C7: after any sequence of update_cursor calls, the cursor's
\* total_messages_indexed is the sum of the messages_added passed and its
\* last_sync is the time of the latest call.
C7_Accumulates ==
    (run_status = "calls" /\ Quiet /\ Returned # {})
        => /\ Len(sync_cursor) = 1
           /\ sync_cursor[1].total_messages_indexed = SumAdded(Returned)
           /\ sync_cursor[1].last_sync = clock

\* C8: when a run has ended, every record of the remote log at or before a
\* stored checkpoint timestamp is persisted.
C8_FullyCovered ==
    run_status = "finished"
        => \A k \in CursorRows : \A r \in Range(remote_log) :
              r.timestamp <= sync_cursor[k].last_indexed_timestamp
                  => chat_messages[r] >= 1

\* C9: a stored checkpoint timestamp is never later than the latest
\* timestamp of the persisted records, in every state, also after an
\* error or a kill.
C9_NotPastRecords ==
    \A k \in CursorRows :
       \E r \in Persisted : sync_cursor[k].last_indexed_timestamp <= r.timestamp

\* C9 witness: the process was killed after a window's records were
\* committed and before its update_cursor: a persisted record is later
\* than the stored checkpoint.
C9_Witness ==
    /\ run_status = "crashed"
    /\ sync_cursor # <<>>
    /\ \E r \in Persisted : \A k \in CursorRows :
          sync_cursor[k].last_indexed_timestamp < r.timestamp

\* C10: when the last chunk of a window's batch is committed, update_cursor
\* is called with the largest timestamp of the batch and the inserted count.
C10_Invoked ==
    [][ \A w \in Windows :
          ( /\ win[w].pc = "commit"
            /\ LastChunk(w)
            /\ TimestampsOf(win[w].messages_batch) # {}
            /\ win'[w].pc \in { "uc_cursor", "db_done" } )
          => /\ win'[w].pc = "uc_cursor"
             /\ win'[w].last_timestamp = MaxOf(TimestampsOf(win[w].messages_batch))
             /\ win'[w].messages_added = win[w].inserted_count ]_vars

\* C11: a run that follows a run killed between a window's commit and its
\* update_cursor, and whose own windows all completed, ends with the
\* checkpoint timestamp equal to the latest timestamp of the persisted
\* records (stated where at most one cursor row exists).
C11_Recovered ==
    (before = "cut" /\ run_status = "finished" /\ AllCompleted /\ Len(sync_cursor) <= 1)
        => /\ sync_cursor # <<>>
           /\ sync_cursor[1].last_indexed_timestamp
                 = MaxOf({ r.timestamp : r \in Persisted })

\* the windows a started run has planned
Queued == { w \in Windows : win[w].pc = "queued" }

\* C12: the from/to bounds of the planned windows are contiguous: each
\* window's to_date is one second before the next window's from_date.
C12_Contiguous ==
    run_status = "running"
        => \A w \in Queued : (w + 1) \in Queued
              => to_date(current_datetime(start_datetime, w)) + SECOND
                    = from_date(current_datetime(start_datetime, w + 1))

\* C13: when the resume point is not after the end date, the planned
\* windows are exactly the months from the resume point's month to the end
\* date's month, and the list months is in ascending order.
C13_OnePerMonth ==
    (run_status = "running" /\ start_datetime <= end_datetime)
        => /\ Queued = MonthOf(start_datetime)..MonthOf(end_datetime)
           /\ total_months_of(start_datetime, end_datetime) = Cardinality(Queued)
           /\ \A i, j \in 0..(total_months_of(start_datetime, end_datetime) - 1) :
                 i < j => months_at(start_datetime, i) < months_at(start_datetime, j)

\* C13 witness: resume point on a later day of month 0, end date in the
\* last month: three windows, first and last partial.
C13_Witness ==
    /\ run_status = "running"
    /\ start_datetime > DAY
    /\ MonthOf(start_datetime) = 0
    /\ end_datetime = At(MaxMonth, 1, 0)
    /\ Cardinality(Queued) = MaxMonth + 1

\* C14: when the resume point is later than the end date, no window is
\* planned.
C14_EmptyWhenPast ==
    (run_status = "running" /\ start_datetime > end_datetime) => Queued = {}

\* C15: start-up that finds a checkpoint resumes from the later of the
\* checkpoint timestamp minus one hour and the earliest possible date, and
\* start-up that finds none from the earliest possible date.
C15_StartDate ==
    [][ run_status # run_status'
          => /\ run_status' = "running"
             /\ start_datetime' >= EARLIEST_DATE
             /\ \/ sync_cursor = <<>> /\ start_datetime' = EARLIEST_DATE
                \/ \E k \in CursorRows :
                      LET start_from == sync_cursor[k].last_indexed_timestamp - HOUR
                      IN start_datetime' = IF start_from > EARLIEST_DATE
                                           THEN start_from ELSE EARLIEST_DATE ]_vars

\* C16: at every moment the number of windows a worker is busy with
\* (request sent and fetch_logs not yet returned) is at most max_workers.
C16_PoolBound ==
    Cardinality({ w \in Windows : InFlight(w) }) <= max_workers

\* C16 witness: max_workers windows are in flight, one of them committing,
\* while a planned window still waits.
C16_Witness ==
    /\ Cardinality({ w \in Windows : InFlight(w) }) = max_workers
    /\ \E w \in Windows : win[w].pc = "commit"
    /\ Queued # {}

\* the identity key of a record
Key(r) ==
    IF r.message_id # ""
    THEN << "id", r.message_id, r.timestamp >>
    ELSE << "tuple", r.timestamp, r.text, r.display_name >>
\* messages of the calls that have returned from insert_messages_batch
Submitted ==
    UNION { Range(win[w].messages_batch) : w \in { v \in Windows : InUpdate(v) } }
RECURSIVE SumRows(_)
SumRows(S) ==
    IF S = {} THEN 0
    ELSE LET r == CHOOSE x \in S : TRUE
         IN chat_messages[r] + SumRows(S \ { r })

\* C17: when insert_messages_batch returns for a batch that holds records
\* without an identifier, each such record is stored exactly once, however
\* often the batch held it, and records that differ only in text are stored
\* separately.
C17_FallbackIdentity ==
    \A r \in Submitted : r.message_id = "" => chat_messages[r] = 1

\* C18: with one writer no two stored rows share an identity key, and
\* while no call has failed the rows stored are as many as the calls that
\* returned have counted as inserted.
C18_UniqueKeys ==
    /\ \A r \in Persisted : chat_messages[r] = 1
    /\ \A r, q \in Persisted : Key(r) = Key(q) => r = q
    /\ (\A w \in Windows : win[w].pc \in { "none", "db_done" } \/ InUpdate(w))
          => SumRows(Persisted) = SumAdded(Windows)

\* C18 witness: a call whose batch held the same record more than once has
\* returned after an earlier call stored a record, and a record with the
\* key of a stored one was left out.
C18_Witness ==
    /\ run_status = "batch"
    /\ \E w \in Windows :
          /\ InUpdate(w)
          /\ w > 0
          /\ win[w].messages_added = 1
          /\ Len(win[w].messages_batch) = MaxBatch
          /\ \E i, j \in 1..MaxBatch :
                i # j /\ win[w].messages_batch[i] = win[w].messages_batch[j]
    /\ \E r \in Persisted, q \in Pool : q # r /\ Key(q) = Key(r) /\ chat_messages[q] = 0

\* C19: a step in which a window's fetch ends in a failed status, a timeout
\* or an error changes neither the stored messages nor any cursor row, and
\* the window has added and counted nothing, also when lines had been
\* parsed.
C19_FailedFetchFrame ==
    [][ \A w \in Windows :
          (win[w].pc \in { "fetching", "streaming" } /\ win'[w].pc \in Failures)
            => /\ chat_messages' = chat_messages
               /\ sync_cursor' = sync_cursor
               /\ win[w].pending = {}
               /\ win[w].inserted_count = 0
               /\ win'[w].last_timestamp = None ]_vars

\* C19 witness: a run has ended in which a window was abandoned after it
\* had parsed a message, that message is not stored, and another window
\* has advanced the checkpoint.
C19_Witness ==
    /\ run_status = "finished"
    /\ sync_cursor # <<>>
    /\ \E w \in Windows :
          /\ win[w].pc \in { "timeout", "error" }
          /\ win[w].messages_batch # <<>>
          /\ \A r \in Range(win[w].messages_batch) : chat_messages[r] = 0

\* the stored rows after the session of w commits what it has added
Committed(w) ==
    [ r \in DOMAIN chat_messages |->
        IF r \in win[w].pending THEN chat_messages[r] + 1 ELSE chat_messages[r] ]

\* C20: the commit of a chunk either stores the chunk's rows and the call
\* goes on, or it stores nothing and takes nothing back: the rows stored
\* before stay, the window ends in the error handler without a timestamp
\* for update_cursor, no cursor row changes, and no other window is
\* touched. A window that ended in the error handler stays there.
C20_ChunkFailure ==
    [][ \A w \in Windows :
          /\ (win[w].pc = "commit" /\ win'[w] # win[w])
               => \/ /\ chat_messages' = Committed(w)
                     /\ win'[w].pc \in { "insert", "uc_cursor", "db_done" }
                  \/ /\ chat_messages' = chat_messages
                     /\ sync_cursor' = sync_cursor
                     /\ win'[w].pc = "error"
                     /\ win'[w].last_timestamp = None
                     /\ \A v \in Windows \ { w } : win'[v] = win[v]
          /\ (run_status = "batch" /\ win[w].pc = "error")
               => win'[w] = win[w] ]_vars

\* C20 witness: the first call failed in its second chunk and left the two
\* rows of its first chunk; the next call stored one more row and advanced
\* the checkpoint.
C20_Witness ==
    /\ run_status = "batch"
    /\ win[0].pc = "error"
    /\ win[1].pc = "db_done"
    /\ win[1].messages_added = 1
    /\ win[1].last_timestamp # None
    /\ win[2].pc = "none"
    /\ SumRows(Persisted) = batch_size + 1
    /\ Len(sync_cursor) = 1

\* what from_json_line makes of a list of lines none of which raises
RECURSIVE ParseAll(_)
ParseAll(lines) ==
    IF lines = <<>> THEN <<>>
    ELSE from_json_line(Head(lines)).messages \o ParseAll(Tail(lines))
\* no line of the body makes from_json_line raise
Readable(lines) == \A i \in 1..Len(lines) : from_json_line(lines[i]).raised = ""

\* C21: a window whose body parses into a batch that holds a record
\* without timestamp ends completed with every record of the batch stored,
\* the one without timestamp included, and the checkpoint at the largest
\* timestamp of the others.
C21_NoTimestampInserted ==
    \A w \in Windows :
       ( /\ Readable(remote_log)
         /\ \E r \in Range(ParseAll(remote_log)) : r.timestamp = None
         /\ win[w].pc \in Terminal )
       => /\ win[w].pc = "completed"
          /\ \A r \in Range(ParseAll(remote_log)) : chat_messages[r] >= 1
          /\ TimestampsOf(ParseAll(remote_log)) # {}
                => /\ sync_cursor # <<>>
                   /\ sync_cursor[1].last_indexed_timestamp
                         = MaxOf(TimestampsOf(ParseAll(remote_log)))

\* a line the parser is to skip: no JSON, no object, or an object with a
\* field of the wrong shape
Malformed(line) ==
    \/ line.json # "object"
    \/ line.timestamp.shape = "other"
    \/ line.tags = "list"
\* a line with every field in order
WellFormed(line) == ~Malformed(line) /\ line.timestamp.shape = "iso"

\* C22: reading a line never ends the window: a malformed line is passed
\* over and leaves the batch as it is, a well-formed line adds its record
\* at the end of the batch, and the lines after it stay to be read.
C22_MalformedSkipped ==
    [][ \A w \in Windows :
          (win[w].pc = "streaming" /\ win[w].lines # <<>> /\ win'[w] # win[w])
            => /\ win'[w].pc = "streaming"
               /\ win'[w].lines = Tail(win[w].lines)
               /\ Malformed(Head(win[w].lines))
                     => win'[w].messages_batch = win[w].messages_batch
               /\ WellFormed(Head(win[w].lines))
                     => win'[w].messages_batch =
                           Append(win[w].messages_batch,
                                  Rec(Head(win[w].lines).id,
                                      Head(win[w].lines).timestamp.at,
                                      "hi", "u1")) ]_vars

\* C23: a line that is an object with every other field in order and
\* whose timestamp field is absent or is no ISO date adds a record with a
\* null timestamp to the batch.
C23_NullTimestamp ==
    [][ \A w \in Windows :
          ( /\ win[w].pc = "streaming"
            /\ win[w].lines # <<>>
            /\ ~Malformed(Head(win[w].lines))
            /\ Head(win[w].lines).timestamp.shape \in { "absent", "malformed" }
            /\ win'[w] # win[w] )
            => win'[w].messages_batch =
                  Append(win[w].messages_batch,
                         Rec(Head(win[w].lines).id, None, "hi", "u1")) ]_vars

\* the body the remote returns for window w of the current run
BodyOf(w) ==
    Body(remote_log, from_date(current_datetime(start_datetime, w)),
                     to_date(current_datetime(start_datetime, w)))

\* C24: when the stream of a window ends with no record read, the window
\* goes on to its completion without a session: nothing is pending, and
\* neither the stored messages nor a cursor row change; and the completion
\* of a window that called no update_cursor adds one to completed_count
\* and changes neither messages nor cursor.
C24_EmptyBody ==
    [][ \A w \in Windows :
          /\ ( /\ win[w].pc = "streaming"
               /\ win[w].lines = <<>>
               /\ win[w].messages_batch = <<>>
               /\ win'[w].pc \notin { "streaming", "killed" } \cup Failures )
               => /\ win'[w] = Ended("db_done", None, 0)
                  /\ chat_messages' = chat_messages
                  /\ sync_cursor' = sync_cursor
                  /\ completed_count' = completed_count
          /\ ( /\ win[w] = Ended("db_done", None, 0)
               /\ win'[w].pc \notin { "db_done", "killed" } )
               => /\ win'[w].pc = "completed"
                  /\ completed_count' = completed_count + 1
                  /\ chat_messages' = chat_messages
                  /\ sync_cursor' = sync_cursor ]_vars

\* C24 witness: a run over more months than the log has messages for has
\* ended with every window counted, the last one on an empty body, and
\* the checkpoint where the only message put it.
C24_Witness ==
    /\ run_status = "finished"
    /\ BodyOf(PoolMonth) = <<>>
    /\ win[PoolMonth].pc = "completed"
    /\ completed_count = PoolMonth + 1
    /\ Len(sync_cursor) = 1
    /\ sync_cursor[1].last_indexed_timestamp = RemoteLog[1].timestamp
    /\ SumRows(Persisted) = 1

\* C25: when the stream has ended, the lines handed to the parser are the
\* pieces of the whole body split at newlines that are not blank, each
\* once and in order, the piece after the last newline included.
C25_LineBuffer ==
    \A w \in Windows :
       win[w].pc = "stream_ended"
          => win[w].lines = SelectSeq(Split(remote_log), NonBlank)

\* the start-up of a forced run plans every month from the earliest date
PlansFromEarliest ==
    (run_status = "idle" /\ run_status' # "idle")
        => /\ run_status' = "running"
           /\ start_datetime' = EARLIEST_DATE
           /\ { w \in Windows : win'[w].pc = "queued" }
                 = MonthOf(EARLIEST_DATE)..MonthOf(end_datetime)

\* C26 as stated: a forced run plans from the earliest date whatever
\* cursor is stored, and it removes no stored row and adds none.
C26_ForcedResync ==
    [][ /\ PlansFromEarliest
        /\ chat_messages' = chat_messages ]_vars

\* C26 as amended: a forced run plans from the earliest date whatever
\* cursor is stored, removes no stored row, and adds no row for a record
\* that is stored; the rows it adds are of records that were missing.
C26_ForcedResyncNoDuplicate ==
    [][ /\ PlansFromEarliest
        /\ \A r \in DOMAIN chat_messages :
              /\ chat_messages'[r] >= chat_messages[r]
              /\ chat_messages[r] >= 1 => chat_messages'[r] = chat_messages[r] ]_vars

\* C26 witness: a forced run over a store that held a cursor and all but
\* the first record has ended, every month from month 0 completed; the
\* first record was added and every record is stored once.
C26_Witness ==
    /\ run_status = "finished"
    /\ start_datetime = EARLIEST_DATE
    /\ \A w \in Windows : win[w].pc = "completed"
    /\ win[0].messages_added = 1
    /\ \A w \in Windows \ { 0 } : win[w].last_timestamp = None
    /\ \A r \in Records : chat_messages[r] = 1
    /\ Len(sync_cursor) = 1
    /\ sync_cursor[1].last_indexed_timestamp = RemoteLog[Len(RemoteLog)].timestamp

\* C27: the step that cancels a run leaves every window in flight as it
\* is, to finish and commit, and once the run is cancelled a window that
\* had not started does not start.
C27_Cancellation ==
    [][ /\ (run_status = "running" /\ run_status' \in { "interrupted", "crashed" })
             => \A w \in Windows : InFlight(w) => win'[w] = win[w]
        /\ run_status = "interrupted"
             => \A w \in Windows :
                   win[w].pc = "queued" => win'[w].pc \in { "queued", "killed" } ]_vars

\* C28: the channel never has more than one row in sync_cursor, also when
\* the workers of a first sync call update_cursor at the same time and
\* each finds no cursor.
C28_OneCursorRow == Len(sync_cursor) <= 1

\* C29: the first start-up creates the channel's row; every later
\* start-up finds that row and leaves it as it is, its counters included;
\* and no step of the sync removes the row or adds a second one.
C29_ChannelIdempotent ==
    [][ /\ channel'.rows >= channel.rows
        /\ channel'.rows <= 1
        /\ (~Alive /\ channel.rows = 0) => channel'.rows = 1
        /\ (~Alive /\ channel.rows >= 1) => channel' = channel ]_vars

\* C29 witness: a run has started on a channel that an earlier run had
\* created and counted messages for.
C29_Witness ==
    /\ run_status = "running"
    /\ before # "other"
    /\ \A w \in Windows : win[w].pc \in { "none", "queued" }
    /\ channel.rows = 1
    /\ channel.total_messages > 0
    /\ channel.last_activity # None

\* C30: when a run has ended with every planned window completed, each
\* record the remote returned for a planned window has exactly one row.
C30_ExactlyOnce ==
    (run_status = "finished" /\ AllCompleted)
        => \A w \in Windows :
              win[w].pc = "completed"
                 => \A r \in Range(BodyOf(w)) : chat_messages[r] = 1

\* the windows of the run that have returned from fetch_logs
Finished == { w \in Windows : win[w].pc \in { "completed" } \cup Failures }

\* C31: every window that has returned was counted once, so the counter
\* equals the number of returned windows, and when the run has ended every
\* planned window has returned and the counter equals total_months.
C31_CountedOnce ==
    /\ Alive => completed_count = Cardinality(Finished)
    /\ run_status = "finished"
          => /\ \A w \in Windows : win[w].pc \in { "none", "completed" } \cup Failures
             /\ completed_count = total_months_of(start_datetime, end_datetime)

\* C32: when a run has ended with every planned window completed, the
\* channel's total_messages is the number of rows stored for the channel.
C32_TotalMessages ==
    (run_status = "finished" /\ AllCompleted)
        => channel.total_messages = SumRows(Persisted)

====
